---- MODULE Spec2Model ----
(***************************************************************************)
(* A model of gen_build_env.py: the BuildFarm class that resolves the      *)
(* dependency closure of ROS packages from the rosdistro cache, classifies *)
(* the packages, maps them to apt names and writes the Makefile.           *)
(***************************************************************************)
EXTENDS Integers, Sequences, FiniteSets, TLC

(***************************************************************************)
(* Bounds of the model.                                                    *)
(***************************************************************************)
\* number of package names of the distribution cache
NPkgs == 3
\* number of <depend> elements in the whole distribution cache
MaxEdges == 6
\* number of child elements of the release descriptor whose attributes are checked
MaxElements == 2
\* number of characters of a condition attribute
MaxCondLen == 2
\* number of <depend> elements in the cache gen_makefile is run on
MaxMakeEdges == 2
\* number of repositories of the distribution file
MaxRepos == 2
\* number of top-level get_package_dependencies calls whose results are compared
MaxCalls == 2
\* frames of get_package_dependencies the interpreter allows before it raises
\* RecursionError
RecursionLimit == 5
\* number of segments of a version, and the largest number in a segment
MaxSegments == 2
MaxNumber == 1
\* number of get_rosdep_yaml calls, property accesses and BuildFarm
\* constructions of a run
MaxOps == 3

\* the package names the caches are drawn over
PackageNames == <<"rospkg", "rosconsole", "roscpp", "catkin", "rostime", "genmsg">>

Pkgs == {PackageNames[i] : i \in 1..NPkgs}

(***************************************************************************)
(* State.                                                                  *)
(***************************************************************************)
VARIABLES
    \* dist_cache["release_package_xmls"]: package -> its release descriptor
    xmls,
    \* the frames of get_package_dependencies, the outermost first
    stack,
    \* the set object bound once to the default of ignore_depends
    default_ignore,
    \* the package of the top-level call in progress or last made
    root,
    \* the recursive argument of that call
    recursive,
    \* what the last top-level call did: "none", "running", "returned", "RecursionError"
    outcome,
    \* the set the last top-level call returned
    returned,
    \* the warnings get_package_dependencies logged during that call
    logged,
    \* history: every (package, outcome, returned set) a finished top-level call
    \* produced, and the number of calls made, kept where calls are compared
    finished,
    calls

VARIABLES
    \* dist_base and dist_python: rosdep key -> its entry of base.yaml, python.yaml
    dist_base,
    dist_python,
    \* the argument of classify_packages and the three sets it returned
    packages,
    base_pkgs,
    python_pkgs,
    build_pkgs,
    \* "none", then "classified", then what get_package_names did:
    \* "returned" or "TypeError"
    names_outcome,
    \* the set get_package_names returned
    apt_pkgs,
    \* the warnings get_package_names logged
    name_warnings

tableVars == <<dist_base, dist_python, packages, base_pkgs, python_pkgs,
               build_pkgs, names_outcome, apt_pkgs, name_warnings>>

VARIABLES
    \* dist_cache["distribution_file"][0]["repositories"], in the order of the file
    repositories,
    \* the arguments of gen_makefile
    main_targets,
    build_dep,
    \* the members of build_dep the loop of line 402 has not visited yet
    todo,
    \* the lists makefile_targets and build_targets
    makefile_targets,
    build_targets,
    \* what gen_makefile did: "none", "building", "written", "TypeError", "KeyError"
    make_outcome,
    \* what was written to the Makefile, in order
    written

makeVars == <<repositories, main_targets, build_dep, todo, makefile_targets,
              build_targets, make_outcome, written>>

VARIABLES
    \* the documents the remote serves, by URL
    remote,
    \* the files of cache_dir, by name
    cache_files,
    \* the fields __dist_index, __dist_cache, __dist_base, __dist_python
    memo,
    \* the calls of requests.get this BuildFarm made, by URL: all of them, and
    \* those of get_rosdep_yaml calls with the default load_cache and save_cache
    requests_get,
    \* the get_rosdep_yaml calls of the last operation, in order
    fetched,
    \* what the last operation raised, or "none"
    fetch_outcome,
    \* the operations made so far
    fetch_ops

fetchVars == <<remote, cache_files, memo, requests_get, fetched, fetch_outcome, fetch_ops>>

otherThanResolve == <<tableVars, makeVars, fetchVars>>

resolveVars == <<xmls, stack, default_ignore, root, recursive, outcome, returned, logged,
                 finished, calls>>

(***************************************************************************)
(* Release descriptors (package.xml).                                      *)
(***************************************************************************)
NoXml == [present |-> FALSE, children |-> <<>>]

Xml(children) == [present |-> TRUE, children |-> children]

\* one attribute of an element: a condition string or a version bound
Attr(k, cond, ver) == [k |-> k, cond |-> cond, ver |-> ver]

Element(tag, text, attrib) == [tag |-> tag, text |-> text, attrib |-> attrib]

tags_for_dependencies ==
    {"depend", "build_depend", "buildtool_depend", "run_depend",
     "exec_depend", "build_export_depend", "test_depend"}

get_xml_data_by_tags(xs, package_name, tags) ==
    IF ~xs[package_name].present
    THEN <<>>
    ELSE SelectSeq(xs[package_name].children, LAMBDA child : child.tag \in tags)

\* the text of an element without text (None); a version text is the
\* sequence of the numbers of its release, "1.0" being <<1, 0>>
NoText == <<>>

\* lines 214-219: None when there is no version element (IndexError) and when
\* the first one has no text
get_package_version(xs, package_name) ==
    LET data == get_xml_data_by_tags(xs, package_name, {"version"})
    IN  IF data = <<>> THEN [found |-> FALSE, v |-> NoText]
        ELSE [found |-> data[1].text # NoText, v |-> data[1].text]

\* version.parse of a release: the comparison key drops the trailing zeros
RECURSIVE version_parse(_)
version_parse(text) ==
    IF text = <<>> THEN <<>>
    ELSE IF text[Len(text)] = 0 THEN version_parse(SubSeq(text, 1, Len(text) - 1))
    ELSE text

\* the order of the comparison keys: tuples of numbers
RECURSIVE KeyLess(_, _)
KeyLess(a, b) ==
    IF a = <<>> THEN b # <<>>
    ELSE IF b = <<>> THEN FALSE
    ELSE IF a[1] # b[1] THEN a[1] < b[1]
    ELSE KeyLess(Tail(a), Tail(b))

\* version.parse(v) >= version.parse(w) and version.parse(v) > version.parse(w)
VersionGe(v, w) == ~KeyLess(version_parse(v), version_parse(w))

VersionGt(v, w) == KeyLess(version_parse(w), version_parse(v))

\* the warning of lines 253 and 259: both name version_gte
VersionWarning(dep_name, v, package_name, package_version) ==
    [kind |-> "required version_gte", dep |-> dep_name, v |-> v,
     by |-> package_name, but |-> package_version]

get_dependencies(xs, package_name) ==
    get_xml_data_by_tags(xs, package_name, tags_for_dependencies)

(***************************************************************************)
(* The attribute checks of get_package_dependencies.                       *)
(***************************************************************************)
\* v.split(" ")[-1]: the characters after the last single space
RECURSIVE LastToken(_)
LastToken(v) ==
    IF v = <<>> THEN <<>>
    ELSE IF v[Len(v)] = " " THEN <<>>
    ELSE Append(LastToken(SubSeq(v, 1, Len(v) - 1)), v[Len(v)])

ConditionHolds(v) == LastToken(v) = <<"3">>

\* one iteration of "for k, v in d['attrib'].items()" on acc = [depends, warnings]
CheckAttribute(xs, package_name, acc, dep_name, a) ==
    IF a.k = "condition" /\ ~ConditionHolds(a.cond)
    THEN [acc EXCEPT !.depends = @ \ {dep_name}]
    ELSE IF a.k = "version_gte"
    THEN LET pv == get_package_version(xs, dep_name)
         IN  IF pv.found /\ VersionGe(a.ver, pv.v)
             THEN [acc EXCEPT !.warnings = @ \cup
                     {VersionWarning(dep_name, a.ver, package_name, pv.v)}]
             ELSE acc
    ELSE IF a.k = "version_gt"
    THEN LET pv == get_package_version(xs, dep_name)
         IN  IF pv.found /\ VersionGt(a.ver, pv.v)
             THEN [acc EXCEPT !.warnings = @ \cup
                     {VersionWarning(dep_name, a.ver, package_name, pv.v)}]
             ELSE acc
    ELSE IF a.k = "condition"
    THEN acc
    ELSE [acc EXCEPT !.warnings = @ \cup
             {[kind |-> "unknown attribute", dep |-> dep_name, v |-> a.ver,
               by |-> package_name, but |-> NoText]}]

RECURSIVE CheckAttributes(_, _, _, _, _, _)
CheckAttributes(xs, package_name, acc, dep_name, attrib, i) ==
    IF i > Len(attrib) THEN acc
    ELSE CheckAttributes(xs, package_name,
             CheckAttribute(xs, package_name, acc, dep_name, attrib[i]),
             dep_name, attrib, i + 1)

\* one iteration of "for d in depends_xml"
AddDependency(xs, package_name, acc, d) ==
    CheckAttributes(xs, package_name,
        [acc EXCEPT !.depends = @ \cup {d.text}], d.text, d.attrib, 1)

RECURSIVE CollectDepends(_, _, _, _, _)
CollectDepends(xs, package_name, acc, depends_xml, i) ==
    IF i > Len(depends_xml) THEN acc
    ELSE CollectDepends(xs, package_name,
             AddDependency(xs, package_name, acc, depends_xml[i]),
             depends_xml, i + 1)

\* lines 235-266: the working set and the diagnostics of one frame
ScanDepends(xs, package_name) ==
    CollectDepends(xs, package_name, [depends |-> {}, warnings |-> {}],
                   get_dependencies(xs, package_name), 1)

\* get_package_dependencies(package_name, recursive=False)
DirectDepends(xs, package_name) == ScanDepends(xs, package_name).depends

(***************************************************************************)
(* The recursion of get_package_dependencies (lines 268-274), one frame of *)
(* the call stack per call.  A frame keeps its working set depends and the *)
(* keys of list(depends) the loop has not visited yet; ignore_depends is   *)
(* the caller's working set, read through the reference.                   *)
(***************************************************************************)
Frame(xs, package_name) ==
    LET depends == DirectDepends(xs, package_name)
    IN  [package_name |-> package_name, depends |-> depends, keys |-> depends]

\* the object ignore_depends names in frame i
IgnoreDepends(stk, dflt, i) == IF i = 1 THEN dflt ELSE stk[i - 1].depends

\* the membership test of line 270 left out
ExpandsAlways(key, ignore_depends) == TRUE

\* line 270
Expands(key, ignore_depends) == key \notin ignore_depends

\* line 272 with the child's result dropped
UpdateDropsChild(depends, child) == depends

\* line 272: depends.update(child)
Update(depends, child) == depends \cup child

Top == Len(stack)

\* a top-level call get_package_dependencies(p) with the default arguments
EnterResolve(p) ==
    /\ stack = <<>>
    /\ stack' = <<Frame(xmls, p)>>
    /\ root' = p
    /\ recursive' = TRUE
    /\ outcome' = "running"
    /\ returned' = {}
    /\ logged' = ScanDepends(xmls, p).warnings
    /\ UNCHANGED <<xmls, default_ignore>>
    /\ UNCHANGED otherThanResolve

\* the loop meets a key that is in ignore_depends
SkipKey(key) ==
    /\ stack # <<>>
    /\ key \in stack[Top].keys
    /\ ~Expands(key, IgnoreDepends(stack, default_ignore, Top))
    /\ stack' = [stack EXCEPT ![Top].keys = @ \ {key}]
    /\ UNCHANGED <<xmls, default_ignore, root, recursive, outcome, returned, logged,
                   finished, calls>>
    /\ UNCHANGED otherThanResolve

\* line 271: the recursive call, the caller's working set passed as ignore_depends
Recurse(key) ==
    /\ stack # <<>>
    /\ key \in stack[Top].keys
    /\ Expands(key, IgnoreDepends(stack, default_ignore, Top))
    /\ Top < RecursionLimit
    /\ stack' = Append([stack EXCEPT ![Top].keys = @ \ {key}], Frame(xmls, key))
    /\ logged' = logged \cup ScanDepends(xmls, key).warnings
    /\ UNCHANGED <<xmls, default_ignore, root, recursive, outcome, returned, finished, calls>>
    /\ UNCHANGED otherThanResolve

\* the recursive call made at the interpreter's frame limit: RecursionError
\* unwinds every frame
UnwindRecursionError(key) ==
    /\ stack # <<>>
    /\ key \in stack[Top].keys
    /\ Expands(key, IgnoreDepends(stack, default_ignore, Top))
    /\ Top >= RecursionLimit
    /\ stack' = <<>>
    /\ outcome' = "RecursionError"
    /\ returned' = {}
    /\ UNCHANGED <<xmls, default_ignore, root, recursive, logged>>
    /\ UNCHANGED otherThanResolve

\* line 274 in a recursive frame, then line 272 in its caller
ReturnChild ==
    /\ Top > 1
    /\ stack[Top].keys = {}
    /\ stack' = [SubSeq(stack, 1, Top - 1) EXCEPT
                    ![Top - 1].depends = Update(@, stack[Top].depends)]
    /\ UNCHANGED <<xmls, default_ignore, root, recursive, outcome, returned, logged,
                   finished, calls>>
    /\ UNCHANGED otherThanResolve

\* line 274 in the top-level frame
LeaveResolve ==
    /\ Top = 1
    /\ stack[1].keys = {}
    /\ stack' = <<>>
    /\ outcome' = "returned"
    /\ returned' = stack[1].depends
    /\ UNCHANGED <<xmls, default_ignore, root, recursive, logged>>
    /\ UNCHANGED otherThanResolve

\* get_package_dependencies(p, recursive=False): lines 235-266, then line 274
CallDirect(p) ==
    /\ stack = <<>>
    /\ root' = p
    /\ recursive' = FALSE
    /\ outcome' = "returned"
    /\ returned' = DirectDepends(xmls, p)
    /\ logged' = ScanDepends(xmls, p).warnings
    /\ UNCHANGED <<xmls, stack, default_ignore, finished, calls>>
    /\ UNCHANGED otherThanResolve

CallResolve(p) == EnterResolve(p) /\ UNCHANGED <<finished, calls>>

RaiseRecursionError(key) == UnwindRecursionError(key) /\ UNCHANGED <<finished, calls>>

ReturnTop == LeaveResolve /\ UNCHANGED <<finished, calls>>

\* the same three steps, the finished calls written down
CallResolveAgain(p) ==
    /\ calls < MaxCalls
    /\ EnterResolve(p)
    /\ calls' = calls + 1
    /\ UNCHANGED finished

RaiseRecursionErrorLogged(key) ==
    /\ UnwindRecursionError(key)
    /\ finished' = finished \cup
           {[package_name |-> root, outcome |-> "RecursionError", depends |-> {}]}
    /\ UNCHANGED calls

ReturnTopLogged ==
    /\ LeaveResolve
    /\ finished' = finished \cup
           {[package_name |-> root, outcome |-> "returned", depends |-> stack[1].depends]}
    /\ UNCHANGED calls

\* no call of get_package_dependencies made yet
ResolveIdle ==
    /\ stack = <<>>
    /\ default_ignore = {}
    /\ root = PackageNames[1]
    /\ recursive = TRUE
    /\ outcome = "none"
    /\ returned = {}
    /\ logged = {}
    /\ finished = {}
    /\ calls = 0

(***************************************************************************)
(* Makefile targets.  A target name or prerequisite is a path or a bare    *)
(* name: Built(n) is /tmp/built_packages/<n>, Git(n) is <build_dir>/<n>/.git, *)
(* File(f) any other path, Name(n) a bare name.                            *)
(***************************************************************************)
Built(n) == [kind |-> "built", name |-> n]

Git(n) == [kind |-> "git", name |-> n]

File(f) == [kind |-> "file", name |-> f]

Name(n) == [kind |-> "name", name |-> n]

\* alias = None
NoAlias == [kind |-> "none", name |-> ""]

Command(op, a, b, c) == [op |-> op, a |-> a, b |-> b, c |-> c]

\* a str item of makefile_targets
Text(line) ==
    [is_target |-> FALSE, text |-> line, target |-> NoAlias, depends |-> <<>>,
     commands |-> <<>>, phony |-> FALSE, alias |-> NoAlias]

MakefileTarget(target, depends, commands, phony, alias) ==
    [is_target |-> TRUE, text |-> "", target |-> target, depends |-> depends,
     commands |-> commands, phony |-> phony, alias |-> alias]

\* GitRepository.makefile_target; base_dir is build_dir in every use
GitTarget(name, url, branch, recurse) ==
    MakefileTarget(Git(name), <<>>, <<Command("git clone", url, branch, recurse)>>,
                   FALSE, NoAlias)

\* BuildPackage.__post_init__ and BuildPackage.makefile_targets
BuildPackage(target, name, url, branch) ==
    <<GitTarget(name, url, branch, TRUE),
      [target EXCEPT !.depends = <<Git(name)>> \o @]>>

\* the names of S as a list; for a list made from a set the model takes the
\* order of PackageNames
ListOf(S) == SelectSeq(PackageNames, LAMBDA n : n \in S)

\* the packages deb build of the bootstrap tools (line 327)
BootstrapDebs == 8

\* pkg.replace('_', '-') on the names of python_packages
Dash(n) == IF n = "catkin_pkg" THEN "catkin-pkg" ELSE n

env_dep == <<File("/tmp/deb/.touch"), Built(".touch"), File("build_dir/.touch")>>

SourcesCache == File("/root/.ros/rosdep/sources.cache")

\* python_packages, in the order of the dict
python_packages ==
    <<[pkg |-> "catkin_pkg", dep |-> <<>>],
      [pkg |-> "rospkg", dep |-> <<"catkin_pkg">>],
      [pkg |-> "rosdistro", dep |-> <<"rospkg">>],
      [pkg |-> "rosdep", dep |-> <<"rosdistro">>]>>

\* lines 385-395 for one entry of python_packages
PythonBuildPackage(e) ==
    BuildPackage(
        MakefileTarget(
            Built(Dash(e.pkg)),
            <<File("/usr/local/bin/ros_release_python")>> \o env_dep
                \o [i \in 1..Len(e.dep) |-> Built(Dash(e.dep[i]))],
            <<Command("ros_release_python deb3", "", "", FALSE)>>, FALSE, NoAlias),
        e.pkg, "ros-infrastructure", "")

\* lines 318-400: what makefile_targets holds when the loop over build_dep starts
FixedTargets(mains, deps) ==
    <<Text("# main target"),
      MakefileTarget(Name("all"), [i \in 1..Len(ListOf(mains)) |-> Name(ListOf(mains)[i])],
          <<Command("echo built packages", Cardinality(deps) + BootstrapDebs, "", FALSE)>>,
          TRUE, NoAlias),
      Text("# build env"),
      MakefileTarget(Name("env_targets"), env_dep, <<>>, FALSE, NoAlias)>>
    \o [i \in 1..Len(env_dep) |->
          MakefileTarget(env_dep[i],  <<>>,
              <<Command("mkdir -p", "", "", FALSE), Command("touch", "", "", FALSE)>>,
              FALSE, NoAlias)]
    \o <<Text("# python tools for build"),
          MakefileTarget(Name("python_tools"), <<SourcesCache>>, <<>>, TRUE, NoAlias),
          MakefileTarget(File("/etc/ros/rosdep/sources.list.d"), <<Built("rosdep")>>,
              <<Command("rosdep init", "", "", FALSE)>>, FALSE, NoAlias),
          MakefileTarget(SourcesCache,
              <<File("/root/rosdep.yaml"), File("/etc/ros/rosdep/sources.list.d")>>,
              <<Command("echo", "", "", FALSE), Command("rosdep update", "", "", FALSE)>>,
              FALSE, NoAlias)>>
    \o BuildPackage(
          MakefileTarget(File("/usr/local/bin/ros_release_python"), <<>>,
              <<Command("ln -sf", "", "", FALSE)>>, FALSE, NoAlias),
          "ros_release_python", "ros-infrastructure", "")
    \o PythonBuildPackage(python_packages[1])
    \o PythonBuildPackage(python_packages[2])
    \o PythonBuildPackage(python_packages[3])
    \o PythonBuildPackage(python_packages[4])
    \o <<Text("# ROS packages to build")>>

\* line 190: v.get("release", {}).get("packages", [k])
ReleasePackages(v) == IF v.has_packages THEN v.packages ELSE {v.name}

\* get_repository: the index of the first repository that lists the package,
\* 0 for (None, None)
RECURSIVE FindRepository(_, _, _)
FindRepository(repos, package_name, i) ==
    IF i > Len(repos) THEN 0
    ELSE IF package_name \in ReleasePackages(repos[i]) THEN i
    ELSE FindRepository(repos, package_name, i + 1)

get_repository(repos, package_name) == FindRepository(repos, package_name, 1)

\* line 403 with every prerequisite of the package taken, in the set or not
AllDependencies(xs, target, deps) == DirectDepends(xs, target)

\* line 403
Dependencies(xs, target, deps) == DirectDepends(xs, target) \cap deps

\* lines 411-428 for a package whose repository has a source
RosBuildPackage(xs, repo, target, deps) ==
    LET override == repo.name = "rosconsole"
        url == IF override THEN "https://github.com/twdragon/rosconsole.git" ELSE repo.url
        branch == IF override THEN "log4cxx-0.12" ELSE repo.version
        dependencies == ListOf(Dependencies(xs, target, deps))
    IN  BuildPackage(
            MakefileTarget(
                Built(target),
                [i \in 1..Len(dependencies) |-> Built(dependencies[i])]
                    \o <<SourcesCache>>,
                <<Command("bash build_ros_package.sh", repo.name, target, FALSE)>>,
                FALSE, Name(target)),
            repo.name, url, branch)

\* lines 315-400
BeginMakefile(mains, deps) ==
    /\ make_outcome = "none"
    /\ main_targets' = mains
    /\ build_dep' = deps
    /\ todo' = deps
    /\ makefile_targets' = FixedTargets(mains, deps)
    /\ build_targets' = <<>>
    /\ make_outcome' = "building"
    /\ UNCHANGED <<repositories, written>>
    /\ UNCHANGED <<resolveVars, tableVars, fetchVars>>

\* one pass of the loop of line 402
BuildOne(target) ==
    /\ make_outcome = "building"
    /\ target \in todo
    /\ get_repository(repositories, target) # 0
    /\ repositories[get_repository(repositories, target)].has_source
    /\ todo' = todo \ {target}
    /\ build_targets' = build_targets \o
          RosBuildPackage(xmls, repositories[get_repository(repositories, target)],
                          target, build_dep)
    /\ UNCHANGED <<repositories, main_targets, build_dep, makefile_targets,
                   make_outcome, written>>
    /\ UNCHANGED <<resolveVars, tableVars, fetchVars>>

\* line 405 for a package no repository lists: repo is None
RaiseTypeError(target) ==
    /\ make_outcome = "building"
    /\ target \in todo
    /\ get_repository(repositories, target) = 0
    /\ make_outcome' = "TypeError"
    /\ UNCHANGED <<repositories, main_targets, build_dep, todo, makefile_targets,
                   build_targets, written>>
    /\ UNCHANGED <<resolveVars, tableVars, fetchVars>>

\* line 405 for a repository without a "source" key
RaiseKeyError(target) ==
    /\ make_outcome = "building"
    /\ target \in todo
    /\ get_repository(repositories, target) # 0
    /\ ~repositories[get_repository(repositories, target)].has_source
    /\ make_outcome' = "KeyError"
    /\ UNCHANGED <<repositories, main_targets, build_dep, todo, makefile_targets,
                   build_targets, written>>
    /\ UNCHANGED <<resolveVars, tableVars, fetchVars>>

\* line 444 with no target ever taken as written
NeverDuplicated(target, wrote_targets) == FALSE

\* line 444
Duplicated(target, wrote_targets) == target \in wrote_targets

\* lines 439-449: the items written, wrote_targets being the names written so far
RECURSIVE WriteTargets(_, _, _, _)
WriteTargets(targets, i, wrote_targets, out) ==
    IF i > Len(targets) THEN out
    ELSE IF targets[i].is_target /\ Duplicated(targets[i].target, wrote_targets)
    THEN WriteTargets(targets, i + 1, wrote_targets, out)
    ELSE WriteTargets(targets, i + 1,
             IF targets[i].is_target THEN wrote_targets \cup {targets[i].target}
             ELSE wrote_targets,
             Append(out, targets[i]))

\* lines 430-449
WriteMakefile ==
    /\ make_outcome = "building"
    /\ todo = {}
    /\ LET all_targets == makefile_targets \o build_targets \o
               <<MakefileTarget(Name("clean"), <<>>, <<Command("rm -rf", "", "", FALSE)>>,
                                TRUE, NoAlias)>>
       IN  /\ makefile_targets' = all_targets
           /\ written' = WriteTargets(all_targets, 1, {}, <<>>)
    /\ make_outcome' = "written"
    /\ UNCHANGED <<repositories, main_targets, build_dep, todo, build_targets>>
    /\ UNCHANGED <<resolveVars, tableVars, fetchVars>>

\* no call of gen_makefile made yet
MakeIdle ==
    /\ repositories = <<>>
    /\ main_targets = {}
    /\ build_dep = {}
    /\ todo = {}
    /\ makefile_targets = <<>>
    /\ build_targets = <<>>
    /\ make_outcome = "none"
    /\ written = <<>>

(***************************************************************************)
(* The metadata documents and their cache files.  A URL is the directory,  *)
(* the stem and the suffix of its path; a document is None (the parsed     *)
(* empty document), a mapping without a "distributions" key, or an index   *)
(* that names the URL of the distribution cache.                           *)
(***************************************************************************)
None == [kind |-> "None"]

\* no file at a cache path
Absent == [kind |-> "absent"]

Mapping(revision) == [kind |-> "mapping", revision |-> revision]

Index(cache_url) == [kind |-> "index", distribution_cache |-> cache_url]

Url(dir, stem, suffix) == [dir |-> dir, stem |-> stem, suffix |-> suffix]

rosdistro_base_url == "https://raw.githubusercontent.com/ros/rosdistro/master"

index_url == Url(rosdistro_base_url, "index-v4", ".yaml")

base_url == Url(rosdistro_base_url \o "/rosdep", "base", ".yaml")

python_url == Url(rosdistro_base_url \o "/rosdep", "python", ".yaml")

\* the URLs an index names as its distribution cache: a gzipped document and
\* one with an extension get_rosdep_yaml does not know
gz_url == Url("http://repositories.ros.org/rosdistro_cache", "noetic-cache.yaml", ".gz")

zip_url == Url("http://repositories.ros.org/rosdistro_cache", "noetic-cache", ".zip")

\* the URLs the properties fetch
Urls == {index_url, base_url, python_url, gz_url, zip_url}

\* two more URLs a caller may fetch: the distribution cache uncompressed, and
\* the index of another host
yaml_url == Url("http://repositories.ros.org/rosdistro_cache", "noetic-cache", ".yaml")

mirror_url == Url("https://mirror.example.org/rosdistro", "index-v4", ".yaml")

CallerUrls == Urls \cup {yaml_url, mirror_url}

NoFilename == ""

\* the name of the cache file of a URL
filename(url) ==
    IF url.suffix \in {".yaml", ".yml"} THEN url.stem \o url.suffix
    ELSE IF url.suffix = ".gz" THEN url.stem
    ELSE NoFilename

FetchableUrls == {url \in CallerUrls : filename(url) # NoFilename}

Filenames == {filename(url) : url \in FetchableUrls}

\* the condition of line 163 with the cache file ignored
CacheMiss(exists, load_cache) == FALSE

\* the condition of line 163
CacheHit(exists, load_cache) == exists /\ load_cache

\* what one call did: the arguments, what was at the cache path before it,
\* whether it read the cache file, contacted the remote, wrote the cache file,
\* and what it returned or raised
Fetch(url, load_cache, save_cache, cached, read, contacted, wrote, raised, content) ==
    [url |-> url, load_cache |-> load_cache, save_cache |-> save_cache,
     cached |-> cached, read |-> read, contacted |-> contacted, wrote |-> wrote,
     raised |-> raised, content |-> content]

\* get_rosdep_yaml on the cache directory files and the remote documents docs:
\* the call and the cache directory after it
get_rosdep_yaml(files, docs, url, load_cache, save_cache) ==
    LET name == filename(url)
        content == docs[url]
    IN  IF name = NoFilename
        THEN [fetch |-> Fetch(url, load_cache, save_cache, Absent,
                              FALSE, FALSE, FALSE, "RuntimeError", None),
              files |-> files]
        ELSE IF CacheHit(files[name] # Absent, load_cache)
        THEN [fetch |-> Fetch(url, load_cache, save_cache, files[name],
                              TRUE, FALSE, FALSE, "none", files[name]),
              files |-> files]
        ELSE [fetch |-> Fetch(url, load_cache, save_cache, files[name],
                              FALSE, TRUE, save_cache, "none", content),
              files |-> IF save_cache THEN [files EXCEPT ![name] = content] ELSE files]

\* the calls of requests.get counted
Requested(counts, fetch) ==
    IF fetch.contacted
    THEN [counts EXCEPT ![fetch.url] =
              [all |-> @.all + 1,
               defaults |-> @.defaults +
                   (IF fetch.load_cache /\ fetch.save_cache THEN 1 ELSE 0)]]
    ELSE counts

NoRequests == [url \in FetchableUrls |-> [all |-> 0, defaults |-> 0]]

\* the fields __dist_index, __dist_cache, __dist_base, __dist_python after __init__
NoMemo ==
    [dist_index |-> None, dist_cache |-> None, dist_base |-> None, dist_python |-> None]

\* a call of get_rosdep_yaml from outside the class
CallGetRosdepYaml(url, load_cache, save_cache) ==
    /\ fetch_ops < MaxOps
    /\ LET r == get_rosdep_yaml(cache_files, remote, url, load_cache, save_cache)
       IN  /\ cache_files' = r.files
           /\ requests_get' = Requested(requests_get, r.fetch)
           /\ fetched' = <<r.fetch>>
           /\ fetch_outcome' = r.fetch.raised
    /\ fetch_ops' = fetch_ops + 1
    /\ UNCHANGED <<remote, memo>>
    /\ UNCHANGED <<resolveVars, tableVars, makeVars>>

\* a property that fetches url on the first access and keeps the document in field
Property(field, url) ==
    /\ fetch_ops < MaxOps
    /\ IF memo[field] = None
       THEN LET r == get_rosdep_yaml(cache_files, remote, url, TRUE, TRUE)
            IN  /\ cache_files' = r.files
                /\ requests_get' = Requested(requests_get, r.fetch)
                /\ fetched' = <<r.fetch>>
                /\ memo' = [memo EXCEPT ![field] = r.fetch.content]
       ELSE /\ fetched' = <<>>
            /\ UNCHANGED <<cache_files, requests_get, memo>>
    /\ fetch_outcome' = "none"
    /\ fetch_ops' = fetch_ops + 1
    /\ UNCHANGED remote
    /\ UNCHANGED <<resolveVars, tableVars, makeVars>>

GetDistIndex == Property("dist_index", index_url)

GetDistBase == Property("dist_base", base_url)

GetDistPython == Property("dist_python", python_url)

\* the property dist_cache: it reads the property dist_index, subscripts the
\* index and fetches the URL found there
GetDistCache ==
    /\ fetch_ops < MaxOps
    /\ IF memo.dist_cache # None
       THEN /\ fetched' = <<>>
            /\ fetch_outcome' = "none"
            /\ UNCHANGED <<cache_files, requests_get, memo>>
       ELSE LET first == get_rosdep_yaml(cache_files, remote, index_url, TRUE, TRUE)
                loads == memo.dist_index = None
                index == IF loads THEN first.fetch.content ELSE memo.dist_index
                files == IF loads THEN first.files ELSE cache_files
                counts == IF loads THEN Requested(requests_get, first.fetch)
                          ELSE requests_get
                before == IF loads THEN <<first.fetch>> ELSE <<>>
                second == get_rosdep_yaml(files, remote, index.distribution_cache,
                                          TRUE, TRUE)
            IN  IF index.kind # "index"
                THEN /\ fetch_outcome' = IF index = None THEN "TypeError" ELSE "KeyError"
                     /\ cache_files' = files
                     /\ requests_get' = counts
                     /\ fetched' = before
                     /\ memo' = [memo EXCEPT !.dist_index = index]
                ELSE /\ fetch_outcome' = second.fetch.raised
                     /\ cache_files' = second.files
                     /\ requests_get' = Requested(counts, second.fetch)
                     /\ fetched' = Append(before, second.fetch)
                     /\ memo' = [memo EXCEPT !.dist_index = index,
                                             !.dist_cache =
                                                 IF second.fetch.raised = "none"
                                                 THEN second.fetch.content ELSE @]
    /\ fetch_ops' = fetch_ops + 1
    /\ UNCHANGED remote
    /\ UNCHANGED <<resolveVars, tableVars, makeVars>>

\* another BuildFarm is constructed on the same cache directory
NewBuildFarm ==
    /\ fetch_ops < MaxOps
    /\ memo' = NoMemo
    /\ requests_get' = NoRequests
    /\ fetched' = <<>>
    /\ fetch_outcome' = "none"
    /\ fetch_ops' = fetch_ops + 1
    /\ UNCHANGED <<remote, cache_files>>
    /\ UNCHANGED <<resolveVars, tableVars, makeVars>>

\* no document fetched yet, an empty cache directory
FetchIdle ==
    /\ remote = [url \in FetchableUrls |-> None]
    /\ cache_files = [name \in Filenames |-> Absent]
    /\ memo = NoMemo
    /\ requests_get = NoRequests
    /\ fetched = <<>>
    /\ fetch_outcome = "none"
    /\ fetch_ops = 0

(***************************************************************************)
(* The reference tables base.yaml and python.yaml.  A table maps every     *)
(* name to an entry; an entry that is not a key of the table is NoEntry.   *)
(* The value under the entry's "ubuntu" key is a list of apt names, a      *)
(* mapping from distribution keys to lists or null, a string, or missing.  *)
(***************************************************************************)
\* self.ubuntu_distribution
ubuntu_distribution == "jammy"

\* a value under a distribution key: missing, null, or a list of apt names
NoValue == [present |-> FALSE, null |-> FALSE, items |-> {}]

NullValue == [present |-> TRUE, null |-> TRUE, items |-> {}]

ListValue(items) == [present |-> TRUE, null |-> FALSE, items |-> items]

NoMapping == [k \in {ubuntu_distribution, "*"} |-> NoValue]

\* entry.get("ubuntu") of the four shapes, and a name that is no key
NoEntry == [key |-> FALSE, shape |-> "none", items |-> {}, mapping |-> NoMapping]

MissingOs == [key |-> TRUE, shape |-> "none", items |-> {}, mapping |-> NoMapping]

StringEntry == [key |-> TRUE, shape |-> "str", items |-> {}, mapping |-> NoMapping]

ListEntry(items) == [key |-> TRUE, shape |-> "list", items |-> items, mapping |-> NoMapping]

DictEntry(mapping) == [key |-> TRUE, shape |-> "dict", items |-> {}, mapping |-> mapping]

\* set(table.keys())
Keys(table) == {n \in DOMAIN table : table[n].key}

\* lines 282-294 for one p of pkg_infos: what it adds, whether it raises,
\* what it warns
NamesOf(p) ==
    IF p.shape = "list"
    THEN [raises |-> FALSE, pkgs |-> p.items, warnings |-> {}]
    ELSE IF p.shape = "dict"
    THEN IF p.mapping[ubuntu_distribution].present
         THEN [raises |-> p.mapping[ubuntu_distribution].null,
               pkgs |-> p.mapping[ubuntu_distribution].items, warnings |-> {}]
         ELSE IF p.mapping["*"].present
         THEN [raises |-> FALSE, pkgs |-> p.mapping["*"].items, warnings |-> {}]
         ELSE [raises |-> FALSE, pkgs |-> {}, warnings |-> {"package names not found"}]
    ELSE [raises |-> FALSE, pkgs |-> {}, warnings |-> {"unknown package name format"}]

\* lines 277-280
PkgInfos(base_dep, python_dep) ==
    {dist_base[n] : n \in base_dep} \cup {dist_python[n] : n \in python_dep}

\* classify_packages(R)
ClassifyPackages(R) ==
    /\ names_outcome = "none"
    /\ packages' = R
    /\ base_pkgs' = Keys(dist_base) \cap R
    /\ python_pkgs' = Keys(dist_python) \cap R
    /\ build_pkgs' = (R \ (Keys(dist_base) \cap R)) \ (Keys(dist_python) \cap R)
    /\ names_outcome' = "classified"
    /\ UNCHANGED <<dist_base, dist_python, apt_pkgs, name_warnings>>
    /\ UNCHANGED <<resolveVars, makeVars, fetchVars>>

\* get_package_names(base_pkgs, python_pkgs), as line 541 calls it
GetPackageNames ==
    /\ names_outcome = "classified"
    /\ LET infos == PkgInfos(base_pkgs, python_pkgs)
       IN  IF \E p \in infos : NamesOf(p).raises
           THEN /\ names_outcome' = "TypeError"
                /\ UNCHANGED <<apt_pkgs, name_warnings>>
           ELSE /\ names_outcome' = "returned"
                /\ apt_pkgs' = UNION {NamesOf(p).pkgs : p \in infos}
                /\ name_warnings' = UNION {NamesOf(p).warnings : p \in infos}
    /\ UNCHANGED <<dist_base, dist_python, packages, base_pkgs, python_pkgs, build_pkgs>>
    /\ UNCHANGED <<resolveVars, makeVars, fetchVars>>

\* the apt names of the tables
AptNames == {"libfoo-dev", "python3-foo"}

AptLists == {{}} \cup {{a} : a \in AptNames}

Values == {NoValue, NullValue} \cup {ListValue(items) : items \in AptLists}

Entries ==
    {MissingOs, StringEntry}
    \cup {ListEntry(items) : items \in AptLists}
    \cup {DictEntry(m) : m \in [{ubuntu_distribution, "*"} -> Values]}

\* a table with the keys K, every entry the same flat list
FlatTable(K) == [n \in Pkgs |-> IF n \in K THEN ListEntry({"libfoo-dev"}) ELSE NoEntry]

\* a table with at most the key k, its entry of any shape
OneKeyTable(k, entry) == [n \in Pkgs |-> IF n = k THEN entry ELSE NoEntry]

TablesIdle ==
    /\ dist_base = FlatTable({})
    /\ dist_python = FlatTable({})
    /\ packages = {}
    /\ base_pkgs = {}
    /\ python_pkgs = {}
    /\ build_pkgs = {}
    /\ names_outcome = "none"
    /\ apt_pkgs = {}
    /\ name_warnings = {}

\* tables with any key sets, and tables with one entry each of any shape
InitTables ==
    /\ \/ \E K1, K2 \in SUBSET Pkgs :
              dist_base = FlatTable(K1) /\ dist_python = FlatTable(K2)
       \/ \E e1, e2 \in Entries \cup {NoEntry} :
              /\ dist_base = OneKeyTable(PackageNames[1], e1)
              /\ dist_python = OneKeyTable(PackageNames[2], e2)
    /\ packages = {}
    /\ base_pkgs = {}
    /\ python_pkgs = {}
    /\ build_pkgs = {}
    /\ names_outcome = "none"
    /\ apt_pkgs = {}
    /\ name_warnings = {}
    /\ xmls = [p \in Pkgs |-> NoXml]
    /\ ResolveIdle
    /\ MakeIdle
    /\ FetchIdle

NextTables ==
    \/ \E R \in SUBSET Pkgs : ClassifyPackages(R)
    \/ GetPackageNames

(***************************************************************************)
(* The distribution caches the resolver is run on: every package has no    *)
(* release descriptor or one <depend> element for each name of a set.      *)
(***************************************************************************)
DependXml(S) ==
    LET names == SelectSeq(SubSeq(PackageNames, 1, NPkgs), LAMBDA n : n \in S)
    IN  Xml([i \in 1..Len(names) |-> Element("depend", names[i], <<>>)])

Descriptors == {NoXml} \cup {DependXml(S) : S \in SUBSET Pkgs}

RECURSIVE CountEdges(_, _)
CountEdges(xs, n) ==
    IF n = 0 THEN 0 ELSE Len(xs[PackageNames[n]].children) + CountEdges(xs, n - 1)

Init ==
    /\ xmls \in [Pkgs -> Descriptors]
    /\ CountEdges(xmls, NPkgs) <= MaxEdges
    /\ ResolveIdle
    /\ TablesIdle
    /\ MakeIdle
    /\ FetchIdle

Next ==
    \/ \E p \in Pkgs : CallResolve(p)
    \/ \E key \in Pkgs : SkipKey(key)
    \/ \E key \in Pkgs : Recurse(key)
    \/ \E key \in Pkgs : RaiseRecursionError(key)
    \/ ReturnChild
    \/ ReturnTop

NextRepeat ==
    \/ \E p \in Pkgs : CallResolveAgain(p)
    \/ \E key \in Pkgs : SkipKey(key)
    \/ \E key \in Pkgs : Recurse(key)
    \/ \E key \in Pkgs : RaiseRecursionErrorLogged(key)
    \/ ReturnChild
    \/ ReturnTopLogged

(***************************************************************************)
(* The release descriptors the attribute checks are run on: the first      *)
(* package has up to MaxElements child elements, a dependency tag or       *)
(* another tag, with no attribute or a condition attribute.                *)
(***************************************************************************)
\* the characters of a condition string
Chars == {"3", "2", " "}

RECURSIVE Strings(_)
Strings(n) ==
    IF n = 0 THEN {<<>>}
    ELSE Strings(n - 1) \cup {Append(v, c) : v \in Strings(n - 1), c \in Chars}

Attribs == {<<>>} \cup {<<Attr("condition", v, NoText)>> : v \in Strings(MaxCondLen)}

Elements ==
    {Element(tag, text, attrib) :
        tag \in {"depend", "description"},
        text \in {PackageNames[1], PackageNames[2]},
        attrib \in Attribs}

RECURSIVE ElementSeqs(_)
ElementSeqs(n) ==
    IF n = 0 THEN {<<>>}
    ELSE ElementSeqs(n - 1) \cup
         {Append(es, e) : es \in ElementSeqs(n - 1), e \in Elements}

InitEdges ==
    /\ \E es \in ElementSeqs(MaxElements) :
           xmls = [p \in Pkgs |-> IF p = PackageNames[1] THEN Xml(es) ELSE NoXml]
    /\ ResolveIdle
    /\ TablesIdle
    /\ MakeIdle
    /\ FetchIdle

NextEdges == \E p \in Pkgs : CallDirect(p)

(***************************************************************************)
(* The release descriptors the version bounds are checked on: the first    *)
(* package has one or two <depend> elements naming the second, each with   *)
(* no attribute, a version_gte or a version_gt; the second package has no  *)
(* descriptor, a descriptor without a <version> element, or one whose      *)
(* <version> has a text or none.                                           *)
(***************************************************************************)
RECURSIVE VersionTextsOf(_)
VersionTextsOf(n) ==
    IF n = 0 THEN {}
    ELSE VersionTextsOf(n - 1) \cup [1..n -> 0..MaxNumber]

VersionTexts == VersionTextsOf(MaxSegments)

VersionAttribs ==
    {<<>>} \cup {<<Attr(k, <<>>, v)>> : k \in {"version_gte", "version_gt"},
                                       v \in VersionTexts}

BoundedEdges == {Element("depend", PackageNames[2], attrib) : attrib \in VersionAttribs}

VersionedDescriptors ==
    {NoXml, Xml(<<>>)}
    \cup {Xml(<<Element("version", text, <<>>)>>) : text \in VersionTexts \cup {NoText}}

InitVersions ==
    /\ \E d \in BoundedEdges : \E es \in {<<>>} \cup {<<e>> : e \in BoundedEdges} :
       \E x \in VersionedDescriptors :
           xmls = [p \in Pkgs |-> IF p = PackageNames[1] THEN Xml(<<d>> \o es)
                                  ELSE IF p = PackageNames[2] THEN x
                                  ELSE NoXml]
    /\ ResolveIdle
    /\ TablesIdle
    /\ MakeIdle
    /\ FetchIdle

NextVersions == \E p \in Pkgs : CallDirect(p)

(***************************************************************************)
(* The inputs gen_makefile is run on.                                      *)
(***************************************************************************)
RepoNames == {"ros_comm", "rosconsole"}

Repository(name, has_packages, pkgs, has_source) ==
    [name |-> name, has_packages |-> has_packages, packages |-> pkgs,
     has_source |-> has_source, url |-> "https://github.com/ros", version |-> "noetic-devel"]

Repositories ==
    {Repository(name, TRUE, pkgs, has_source) :
        name \in RepoNames, pkgs \in SUBSET Pkgs, has_source \in BOOLEAN}
    \cup {Repository(name, FALSE, {}, has_source) :
        name \in RepoNames, has_source \in BOOLEAN}

\* the keys of a dict are distinct
RECURSIVE RepositoryLists(_)
RepositoryLists(n) ==
    IF n = 0 THEN {<<>>}
    ELSE RepositoryLists(n - 1) \cup
         {Append(rs, r) : rs \in RepositoryLists(n - 1), r \in Repositories}

DistinctNames(rs) == \A i, j \in 1..Len(rs) : rs[i].name = rs[j].name => i = j

\* one repository with a source that releases every package
OneRepository == <<Repository("ros_comm", TRUE, Pkgs, TRUE)>>

\* one repository with a source for each package of the first two names
OwnRepositories ==
    <<Repository("ros_comm", TRUE, {PackageNames[1]}, TRUE),
      Repository("rosconsole", FALSE, {}, TRUE)>>

InitMakefile ==
    /\ \/ /\ xmls \in [Pkgs -> {DependXml(S) : S \in SUBSET Pkgs}]
          /\ CountEdges(xmls, NPkgs) <= MaxMakeEdges
          /\ repositories \in {OneRepository, OwnRepositories}
       \/ /\ xmls = [p \in Pkgs |-> DependXml({})]
          /\ repositories \in RepositoryLists(MaxRepos)
          /\ DistinctNames(repositories)
    /\ main_targets = {}
    /\ build_dep = {}
    /\ todo = {}
    /\ makefile_targets = <<>>
    /\ build_targets = <<>>
    /\ make_outcome = "none"
    /\ written = <<>>
    /\ ResolveIdle
    /\ TablesIdle
    /\ FetchIdle

NextMakefile ==
    \/ \E deps \in SUBSET Pkgs : \E mains \in {{}, deps} : BeginMakefile(mains, deps)
    \/ \E target \in Pkgs : BuildOne(target)
    \/ \E target \in Pkgs : RaiseTypeError(target)
    \/ \E target \in Pkgs : RaiseKeyError(target)
    \/ WriteMakefile

(***************************************************************************)
(* The documents the fetches are run on: the remote serves an index that   *)
(* is empty, has no "distributions" key or names a distribution cache, and *)
(* a base table and a distribution cache that are empty or not; the cache  *)
(* directory holds, for the index, the base table and the distribution     *)
(* cache, nothing or the file an earlier run left there.                   *)
(***************************************************************************)
InitFetch ==
    /\ remote \in [FetchableUrls -> {None, Mapping(1), Index(gz_url), Index(zip_url)}]
    /\ remote[base_url] \in {None, Mapping(1)}
    /\ remote[python_url] = Mapping(1)
    /\ remote[gz_url] \in {None, Mapping(1)}
    /\ remote[yaml_url] = Mapping(1)
    /\ remote[mirror_url] = Index(gz_url)
    /\ cache_files \in [Filenames -> {Absent, Mapping(0), Index(gz_url)}]
    /\ cache_files[filename(index_url)] \in {Absent, Index(gz_url)}
    /\ cache_files[filename(base_url)] \in {Absent, Mapping(0)}
    /\ cache_files[filename(python_url)] = Absent
    /\ cache_files[filename(gz_url)] \in {Absent, Mapping(0)}
    /\ memo = NoMemo
    /\ requests_get = NoRequests
    /\ fetched = <<>>
    /\ fetch_outcome = "none"
    /\ fetch_ops = 0
    /\ xmls = [p \in Pkgs |-> NoXml]
    /\ ResolveIdle
    /\ TablesIdle
    /\ MakeIdle

\* every URL serves a document of its own, named here by the URL; the cache
\* directory is empty
InitCollisions ==
    /\ remote = [url \in FetchableUrls |-> Mapping(url)]
    /\ cache_files = [name \in Filenames |-> Absent]
    /\ memo = NoMemo
    /\ requests_get = NoRequests
    /\ fetched = <<>>
    /\ fetch_outcome = "none"
    /\ fetch_ops = 0
    /\ xmls = [p \in Pkgs |-> NoXml]
    /\ ResolveIdle
    /\ TablesIdle
    /\ MakeIdle

NextFetch ==
    \/ \E url \in Urls : \E load_cache, save_cache \in BOOLEAN :
           CallGetRosdepYaml(url, load_cache, save_cache)
    \/ GetDistIndex
    \/ GetDistCache
    \/ GetDistBase
    \/ GetDistPython
    \/ NewBuildFarm

NextCollisions ==
    \/ \E url \in CallerUrls : \E load_cache, save_cache \in BOOLEAN :
           CallGetRosdepYaml(url, load_cache, save_cache)
    \/ GetDistIndex
    \/ GetDistCache
    \/ GetDistBase
    \/ GetDistPython
    \/ NewBuildFarm

vars == <<resolveVars, tableVars, makeVars, fetchVars>>

Spec == Init /\ [][Next]_vars

SpecRepeat == Init /\ [][NextRepeat]_vars

SpecEdges == InitEdges /\ [][NextEdges]_vars

SpecVersions == InitVersions /\ [][NextVersions]_vars

SpecTables == InitTables /\ [][NextTables]_vars

SpecMakefile == InitMakefile /\ [][NextMakefile]_vars

SpecFetch == InitFetch /\ [][NextFetch]_vars

SpecCollisions == InitCollisions /\ [][NextCollisions]_vars

(***************************************************************************)
(* The dependency relation of a distribution cache.                        *)
(***************************************************************************)
\* q is in get_package_dependencies(p, recursive=False)
DependsOn(p, q) == q \in DirectDepends(xmls, p)

RECURSIVE Grow(_)
Grow(S) ==
    LET T == S \cup {q \in Pkgs : \E p \in S : DependsOn(p, q)}
    IN  IF T = S THEN S ELSE Grow(T)

\* the names reachable from p in one or more steps
Closure(p) == Grow({q \in Pkgs : DependsOn(p, q)})

\* no package reachable from p, p included, lies on a dependency cycle
AcyclicFrom(p) == \A q \in Closure(p) \cup {p} : q \notin Closure(q)

\* q lies on a cycle through another package
OnLongCycle(q) == \E r \in Closure(q) : r # q /\ q \in Closure(r)

Finished == outcome \in {"returned", "RecursionError"}

\* C1: on a cache whose dependency relation is acyclic from the root, a
\* top-level call with the default (empty) exclusion set returns, and returns
\* exactly the transitive closure of the root's direct dependencies; a name
\* without a release descriptor is a leaf of it.
C1_ReturnsClosure ==
    /\ default_ignore = {}
    /\ (Finished /\ AcyclicFrom(root)) =>
           (outcome = "returned" /\ returned = Closure(root))

\* a finished call on an acyclic cache where a dependency shared by the root
\* and one of its dependencies is skipped in the child frame, and where that
\* dependency has no release descriptor
C1_Witness ==
    /\ outcome = "returned"
    /\ AcyclicFrom(root)
    /\ \E a, b \in Pkgs :
          /\ a # b
          /\ DependsOn(root, a) /\ DependsOn(root, b) /\ DependsOn(a, b)
          /\ ~xmls[b].present
    /\ returned = Closure(root)

\* C9: a call raises RecursionError only if a package reachable from the root
\* lies on a cycle through another package (so it returns on acyclic caches
\* and where packages only depend on themselves); it returns when every
\* dependency of the root's dependencies is itself a dependency of the root
\* (a cycle among the siblings of one frame); and it never returns when the
\* root and one other package depend on each other and on nothing else.
C9_Termination ==
    /\ outcome = "RecursionError" =>
           \E q \in Closure(root) \cup {root} : OnLongCycle(q)
    /\ (Finished /\ \A a \in Pkgs : DependsOn(root, a) =>
                       \A b \in Pkgs : DependsOn(a, b) => DependsOn(root, b))
           => outcome = "returned"
    /\ (Finished /\ \E b \in Pkgs :
                       /\ b # root
                       /\ DirectDepends(xmls, root) = {b}
                       /\ DirectDepends(xmls, b) = {root})
           => outcome = "RecursionError"

\* a call that returned although two dependencies of the root depend on each
\* other, and another one depends on itself
C9_Witness ==
    /\ outcome = "returned"
    /\ \E a, b \in Pkgs :
          /\ a # b /\ a # root /\ b # root
          /\ DependsOn(root, a) /\ DependsOn(root, b)
          /\ DependsOn(a, b) /\ DependsOn(b, a)
          /\ DependsOn(a, a)

(***************************************************************************)
(* The dependency edges as the specification reads them.                   *)
(***************************************************************************)
\* the last token of v split on runs of whitespace; <<>> when v has no token
RECURSIVE LastWord(_)
LastWord(v) ==
    IF v = <<>> THEN <<>>
    ELSE IF v[Len(v)] = " " THEN LastWord(SubSeq(v, 1, Len(v) - 1))
    ELSE LastToken(v)

\* d has no condition attribute, or one whose last token is "3"
ActiveEdge(d) ==
    \A i \in 1..Len(d.attrib) :
        d.attrib[i].k = "condition" => LastWord(d.attrib[i].cond) = <<"3">>

ActiveTargets(p) ==
    LET depends_xml == get_dependencies(xmls, p)
    IN  {depends_xml[i].text : i \in {j \in 1..Len(depends_xml) : ActiveEdge(depends_xml[j])}}

\* C2: the set get_package_dependencies(p, recursive=False) returns is the
\* set of the targets of p's active edges, whatever the order of the edges.
C2_DirectIsActiveTargets ==
    (outcome = "returned" /\ ~recursive) => returned = ActiveTargets(root)

\* C2, with the condition split on single spaces as the code splits it:
\* an edge with a false condition still removes the name an active edge gave.
C2_EdgeOrderIrrelevant ==
    (outcome = "returned" /\ ~recursive) =>
        \A i \in 1..Len(get_dependencies(xmls, root)) :
            LET d == get_dependencies(xmls, root)[i]
            IN  (\A j \in 1..Len(d.attrib) :
                    d.attrib[j].k = "condition" => ConditionHolds(d.attrib[j].cond))
                => d.text \in returned

\* C3: the three sets classify_packages returns have the union R and are
\* pairwise disjoint, also for tables that share keys.
C3_Partition ==
    names_outcome = "classified" =>
        /\ base_pkgs \cup python_pkgs \cup build_pkgs = packages
        /\ base_pkgs \cap python_pkgs = {}
        /\ base_pkgs \cap build_pkgs = {}
        /\ python_pkgs \cap build_pkgs = {}

(***************************************************************************)
(* The Makefile.                                                           *)
(***************************************************************************)
\* the indices of makefile_targets that hold the first definition of a target
FirstDefinitions ==
    {i \in 1..Len(makefile_targets) :
        /\ makefile_targets[i].is_target
        /\ \A j \in 1..(i - 1) :
              makefile_targets[j].is_target
                  => makefile_targets[j].target # makefile_targets[i].target}

\* the indices of makefile_targets that hold a section comment
SectionComments ==
    {i \in 1..Len(makefile_targets) : ~makefile_targets[i].is_target}

\* written holds the items of makefile_targets at the indices kept, in their
\* order and unchanged, and nothing else
KeptInOrder(kept) ==
    /\ Len(written) = Cardinality(kept)
    /\ \A i \in kept :
          written[Cardinality({k \in kept : k <= i})] = makefile_targets[i]

\* C4: in the written Makefile every target name is defined at most once,
\* and what is written is, in order and unchanged, the section comments and
\* the first definition of every target name of the accumulated list: a
\* later definition of a name is dropped whole.
C4_FirstDefinitionSurvives ==
    make_outcome = "written" =>
        /\ \A i, j \in 1..Len(written) :
              (written[i].is_target /\ written[j].is_target
                   /\ written[i].target = written[j].target) => i = j
        /\ KeptInOrder(FirstDefinitions \cup SectionComments)

\* a written Makefile from which the checkout target shared by two packages
\* of one repository was dropped once
C4_Witness ==
    /\ make_outcome = "written"
    /\ Len(written) < Len(makefile_targets)
    /\ \E i, j \in 1..Len(makefile_targets) :
          /\ i < j
          /\ makefile_targets[i].is_target
          /\ makefile_targets[i].target.kind = "git"
          /\ makefile_targets[j] = makefile_targets[i]
          /\ makefile_targets[i].target.name \in RepoNames

\* the build targets gen_makefile made for package a
BuildTargetsOf(a) ==
    {build_targets[i] : i \in {j \in 1..Len(build_targets) :
                                  build_targets[j].alias = Name(a)}}

\* the package markers among the prerequisites of a target
Markers(t) == {t.depends[i] : i \in {j \in 1..Len(t.depends) : t.depends[j].kind = "built"}}

\* C5, for the targets as the loop over build_dep constructs them: the
\* package markers among the prerequisites of the build target made for a
\* package A of the source set are the markers of the members of the source
\* set that get_package_dependencies(A, recursive=False) returns; the same
\* holds of that target where the Makefile is written with it.
C5_PrerequisitesAreDirectInSet ==
    /\ \A a \in build_dep \ todo : make_outcome \in {"building", "written"} =>
          /\ BuildTargetsOf(a) # {}
          /\ \A t \in BuildTargetsOf(a) :
                Markers(t) = {Built(b) : b \in DirectDepends(xmls, a) \cap build_dep}
    /\ \A i \in 1..Len(written) : \A a \in build_dep :
          written[i].alias = Name(a) =>
              Markers(written[i]) = {Built(b) : b \in DirectDepends(xmls, a) \cap build_dep}

\* C5, as stated: in the written Makefile, the package markers among the
\* prerequisites of the target /tmp/built_packages/A of every package A of
\* the source set are the markers of the members of the source set that
\* get_package_dependencies(A, recursive=False) returns.
C5_EmittedPrerequisites ==
    make_outcome = "written" =>
        \A a \in build_dep : \A i \in 1..Len(written) :
            (written[i].is_target /\ written[i].target = Built(a)) =>
                Markers(written[i]) = {Built(b) : b \in DirectDepends(xmls, a) \cap build_dep}

\* a written Makefile for a source set with A and B, where A depends on B
\* and on a package outside the set, and B does not depend on A
C5_Witness ==
    /\ make_outcome = "written"
    /\ \E a, b \in build_dep : \E c \in Pkgs \ build_dep :
          /\ a # b
          /\ DirectDepends(xmls, a) = {b, c}
          /\ a \notin DirectDepends(xmls, b)
          /\ \E i, j \in 1..Len(written) :
                /\ written[i].alias = Name(a) /\ Built(b) \in Markers(written[i])
                /\ written[j].alias = Name(b) /\ Built(a) \notin Markers(written[j])

\* C6: gen_makefile completes for every source set, and the written
\* Makefile has, for every member p, a target /tmp/built_packages/p whose
\* command builds p, whose alias is p and whose prerequisites include
\* /root/.ros/rosdep/sources.cache.
C6_EveryPackageHasBuildTarget ==
    /\ make_outcome \notin {"TypeError", "KeyError"}
    /\ make_outcome = "written" =>
          \A p \in build_dep : \E i \in 1..Len(written) :
              /\ written[i].is_target
              /\ written[i].target = Built(p)
              /\ written[i].alias = Name(p)
              /\ \E c \in 1..Len(written[i].commands) :
                    /\ written[i].commands[c].op = "bash build_ros_package.sh"
                    /\ written[i].commands[c].b = p
              /\ \E d \in 1..Len(written[i].depends) : written[i].depends[d] = SourcesCache

\* C6, for the source sets gen_makefile completes on
C6_WrittenPackageHasBuildTarget ==
    make_outcome = "written" =>
        \A p \in build_dep : \E i \in 1..Len(written) :
            /\ written[i].target = Built(p)
            /\ written[i].alias = Name(p)
            /\ \E d \in 1..Len(written[i].depends) : written[i].depends[d] = SourcesCache

\* what the claim lets an entry contribute
Contributes(p) ==
    IF p.shape = "list" THEN p.items
    ELSE IF p.shape = "dict" /\ p.mapping[ubuntu_distribution].present
    THEN p.mapping[ubuntu_distribution].items
    ELSE IF p.shape = "dict" /\ p.mapping["*"].present
    THEN p.mapping["*"].items
    ELSE {}

\* C7: get_package_names never raises, whatever the shape of an entry, and
\* returns exactly what the entries of the classified names contribute.
C7_NeverFails ==
    /\ names_outcome # "TypeError"
    /\ names_outcome = "returned" =>
           apt_pkgs = UNION {Contributes(p) : p \in PkgInfos(base_pkgs, python_pkgs)}

\* C10: any two finished top-level calls for the same package agree on
\* whether the call returned and on the returned set.
C10_Deterministic ==
    \A f, g \in finished : f.package_name = g.package_name => f = g

(***************************************************************************)
(* The cache of metadata documents.                                        *)
(***************************************************************************)
Supported(fetch) == filename(fetch.url) # NoFilename

\* the cache file of the document existed when the fetch was made
Existed(fetch) == Supported(fetch) /\ fetch.cached # Absent

\* a fetch that found the cache file returned its content, did not contact
\* the remote and left the file alone
ServedFromCache(fetch) ==
    /\ fetch.raised = "none"
    /\ fetch.content = fetch.cached
    /\ ~fetch.contacted
    /\ ~fetch.wrote

\* a fetch of an unsupported URL raised and did nothing else
FailedFirst(fetch) ==
    /\ fetch.raised = "RuntimeError"
    /\ ~fetch.read
    /\ ~fetch.contacted
    /\ ~fetch.wrote

WithDefaults(fetch) == fetch.load_cache /\ fetch.save_cache

\* C8, as stated: whatever the arguments of the calls, a fetch of a document
\* whose cache file exists returns the cached content, does not contact the
\* remote and does not rewrite the file; one BuildFarm contacts the remote at
\* most once for each document; a fetch of a URL with an unsupported
\* extension fails before any cache read, remote contact or cache write.
C8_CacheIsAuthoritative ==
    /\ \A i \in DOMAIN fetched :
          /\ Existed(fetched[i]) => ServedFromCache(fetched[i])
          /\ ~Supported(fetched[i]) => FailedFirst(fetched[i])
    /\ \A url \in FetchableUrls : requests_get[url].all <= 1

\* C8, the same as an action property: a cache file that exists is never
\* rewritten or removed.
C8_CacheFileNeverRewritten ==
    [][\A name \in Filenames :
           cache_files[name] # Absent => cache_files'[name] = cache_files[name]]_vars

\* C8, amended to the fetches made with the default load_cache and
\* save_cache (every fetch the program makes, the property accesses among
\* them): such a fetch of a document whose cache file exists returns the
\* cached content, does not contact the remote and does not rewrite the
\* file; such fetches contact the remote at most once for each document
\* within one BuildFarm; a fetch of a URL with an unsupported extension,
\* whatever its arguments, fails before any cache read, remote contact or
\* cache write.
C8_DefaultFetchesUseCache ==
    /\ \A i \in DOMAIN fetched :
          /\ (WithDefaults(fetched[i]) /\ Existed(fetched[i]))
                => ServedFromCache(fetched[i])
          /\ ~Supported(fetched[i]) => FailedFirst(fetched[i])
    /\ \A url \in FetchableUrls : requests_get[url].defaults <= 1

\* after a call of get_rosdep_yaml on the index, the first access of
\* dist_cache fetched the index from the cache file that call wrote, without
\* a second contact, and fetched and saved the distribution cache; a file an
\* earlier run left is still in the cache directory
C8_Witness ==
    /\ Len(fetched) = 2
    /\ WithDefaults(fetched[1]) /\ Existed(fetched[1])
    /\ fetched[1].url = index_url
    /\ requests_get[index_url].defaults = 1
    /\ fetched[2].contacted
    /\ fetched[2].wrote
    /\ \E name \in Filenames : cache_files[name] = Mapping(0)

(***************************************************************************)
(* The version bounds.                                                     *)
(***************************************************************************)
\* the declared version w is lower than v, as versions
Lower(w, v) == KeyLess(version_parse(w), version_parse(v))

\* the bound a of an edge is not met by the declared version of its dependency
OutOfBound(a, pv) ==
    /\ pv.found
    /\ \/ a.k = "version_gte" /\ Lower(pv.v, a.ver)
       \/ a.k = "version_gt" /\ ~Lower(a.ver, pv.v)

\* the diagnostics the bounds of the edges of p call for
BoundDiagnostics(p) ==
    LET depends_xml == get_dependencies(xmls, p)
    IN  {VersionWarning(depends_xml[i].text, depends_xml[i].attrib[j].ver, p,
                        get_package_version(xmls, depends_xml[i].text).v) :
            <<i, j>> \in {ij \in (1..Len(depends_xml)) \X (1..1) :
                /\ ij[2] <= Len(depends_xml[ij[1]].attrib)
                /\ OutOfBound(depends_xml[ij[1]].attrib[ij[2]],
                              get_package_version(xmls, depends_xml[ij[1]].text))}}

\* the descriptors with the version attributes taken off the edges
WithoutBounds(xs) ==
    [p \in DOMAIN xs |->
        [xs[p] EXCEPT !.children =
            [i \in 1..Len(@) |->
                [@[i] EXCEPT !.attrib =
                    SelectSeq(@, LAMBDA a : a.k \notin {"version_gte", "version_gt"})]]]]

\* C11: a version_gte=v edge is reported exactly when the dependency's
\* declared version is resolvable and lower than v, a version_gt=v edge
\* exactly when it is resolvable and lower than or equal to v, never when the
\* dependency declares no version; the returned set is the one the same
\* edges give without their version attributes.
C11_BoundDiagnostics ==
    (outcome = "returned" /\ ~recursive) =>
        /\ logged = BoundDiagnostics(root)
        /\ returned = DirectDepends(WithoutBounds(xmls), root)

\* C11, the parts that hold: no diagnostic without a declared version, and
\* the returned set does not depend on the version attributes.
C11_DiagnosticOnly ==
    (outcome = "returned" /\ ~recursive) =>
        /\ (\A w \in logged : get_package_version(xmls, w.dep).found)
        /\ returned = DirectDepends(WithoutBounds(xmls), root)

\* C12: the document get_rosdep_yaml returns for a URL is the one that URL
\* serves, never one cached for another URL, also for two URLs with the same
\* file name and for a .yaml and a .gz URL with the same cache file name.
C12_ReturnsOwnDocument ==
    \A i \in DOMAIN fetched :
        fetched[i].raised = "none" => fetched[i].content = remote[fetched[i].url]

====
